---------------------------- MODULE Spec2Model ----------------------------
(***************************************************************************)
(* Model of markdown-to-pdf-rust/src/pdf_renderer.rs: the PdfRenderer      *)
(* layout engine (render_events and the operations it calls), and of       *)
(* tagflow-rust-pyo3/src/lib.rs: the Document tag builder.                 *)
(*                                                                         *)
(* Lengths are fixed-point integers: 1 mm = MM units (10^-6 mm each), so   *)
(* the f64 products of the source (font size * line height * 0.352777778)  *)
(* are kept to six decimals of a millimetre.  Font sizes are whole points; *)
(* line-height multipliers are kept in hundredths (1.15 = 115); the size   *)
(* handed to use_text is kept in tenths of a point (9.9pt = 99).           *)
(* A string is a sequence of characters, each a one-character string; a    *)
(* character outside ASCII is named by its code point ("U+00E9") and has   *)
(* the UTF-8 length CharBytes gives it, since str::len counts bytes.       *)
(***************************************************************************)
EXTENDS Integers, Sequences, FiniteSets, TLC

VARIABLES
    self,           \* the PdfRenderer: doc, current_page, current_y, ...
    text_stack,     \* render_events: let mut text_stack
    in_code_block,  \* render_events: let mut in_code_block
    in_heading,     \* render_events: let mut _in_heading (0 is None)
    list_level,     \* render_events: let mut list_level: u32
    events,         \* the elements of the slice the loop has consumed
    result,         \* "Ok" while the loop runs or returns, "panic" once aborted
    wrap_args,      \* wrap_text driver: the arguments (text, max_width)
    wrap_ret,       \* wrap_text driver: <<lines>> once wrap_text has returned
    document,       \* tagflow Document: parts and tag_stack
    calls,          \* the calls made on the Document that may change it
    returned        \* what the last call on the Document returned

vars == <<self, text_stack, in_code_block, in_heading, list_level, events,
          result, wrap_args, wrap_ret, document, calls, returned>>

\* The variables of the Document and of its driver.
document_vars == <<document, calls, returned>>

-----------------------------------------------------------------------------
(* Units and constants (pdf_renderer.rs lines 9-41) *)

MM == 1000 * 1000

PAGE_WIDTH == 210 * MM
PAGE_HEIGHT == 297 * MM
MARGIN_TOP == 25 * MM
MARGIN_BOTTOM == 25 * MM
MARGIN_LEFT == 25 * MM
MARGIN_RIGHT == 25 * MM

TEXT_WIDTH == PAGE_WIDTH - MARGIN_LEFT - MARGIN_RIGHT
TEXT_HEIGHT == PAGE_HEIGHT - MARGIN_TOP - MARGIN_BOTTOM

FONT_SIZE_H1 == 18
FONT_SIZE_H2 == 16
FONT_SIZE_H3 == 14
FONT_SIZE_H4 == 12
FONT_SIZE_H5 == 11
FONT_SIZE_H6 == 10
FONT_SIZE_BODY == 11
FONT_SIZE_CODE == 9

LINE_HEIGHT_H1 == 120
LINE_HEIGHT_H2 == 120
LINE_HEIGHT_H3 == 115
LINE_HEIGHT_BODY == 140
LINE_HEIGHT_CODE == 120

PARAGRAPH_SPACING == 6 * MM
HEADING_SPACING_BEFORE == 12 * MM
HEADING_SPACING_AFTER == 6 * MM
CODE_BLOCK_SPACING == 8 * MM

\* The list indent step: the literal 10.0 of lines 132 and 175.
INDENT_STEP == 10 * MM

\* q * 0.352777778 mm for q in hundredths of a point (font size * line
\* height), truncated to the unit: q * 3527.77778 units.
PtToMm100(q) == q * 3527 + (q * 77778) \div 100000

\* font_size * 0.5 * 0.352777778 mm (line 337): font_size * 176388.889 units.
ApproxCharWidth(font_size) == font_size * 176388 + (font_size * 889) \div 1000

-----------------------------------------------------------------------------
(* Strings *)

\* UTF-8 length of a character.
CharBytes(c) ==
    CASE c = "U+00E9" -> 2
      [] c = "U+00A0" -> 2
      [] c = "U+2022" -> 3
      [] c = "U+25E6" -> 3
      [] OTHER -> 1

\* A for loop: st after Body(st, i) has been applied for i = lo, ..., hi in
\* that order.  The range is halved and the first half is evaluated before
\* the second is entered, so that the evaluation stays shallow.
RECURSIVE ForEach(_, _, _, _)
ForEach(Body(_, _), st, lo, hi) ==
    IF lo > hi THEN st
    ELSE IF lo = hi THEN Body(st, lo)
    ELSE LET mid == (lo + hi) \div 2
             first == ForEach(Body, st, lo, mid)
         IN  IF <<first>> = <<>> THEN first
             ELSE ForEach(Body, first, mid + 1, hi)

\* str::len / String::len: the length in bytes.
ByteLen(s) ==
    Len(s) + Len(SelectSeq(s, LAMBDA c : CharBytes(c) >= 2))
           + Len(SelectSeq(s, LAMBDA c : CharBytes(c) >= 3))

\* char::is_whitespace, on the characters the model uses.
IsWhitespace(c) == c \in {" ", "\t", "\n", "\r", "U+00A0"}

\* str::split_whitespace: the maximal runs of non-whitespace, in order.
split_whitespace(s) ==
    LET Scan(st, i) ==
            IF IsWhitespace(s[i])
            THEN [word |-> <<>>,
                  acc |-> IF st.word = <<>> THEN st.acc
                          ELSE Append(st.acc, st.word)]
            ELSE [word |-> Append(st.word, s[i]), acc |-> st.acc]
        end == ForEach(Scan, [word |-> <<>>, acc |-> <<>>], 1, Len(s))
    IN  IF end.word = <<>> THEN end.acc ELSE Append(end.acc, end.word)

\* str::trim followed by is_empty: only whitespace.
TrimIsEmpty(s) == \A i \in 1..Len(s) : IsWhitespace(s[i])

\* str::lines: split after every "\n"; a piece loses its final "\n" and then
\* a "\r" that stood before it; no piece follows the last "\n".
lines(s) ==
    LET Stripped(piece) ==
            IF piece # <<>> /\ piece[Len(piece)] = "\r"
            THEN SubSeq(piece, 1, Len(piece) - 1)
            ELSE piece
        Scan(st, i) ==
            IF s[i] = "\n"
            THEN [piece |-> <<>>, acc |-> Append(st.acc, Stripped(st.piece))]
            ELSE [piece |-> Append(st.piece, s[i]), acc |-> st.acc]
        end == ForEach(Scan, [piece |-> <<>>, acc |-> <<>>], 1, Len(s))
    IN  IF end.piece = <<>> THEN end.acc ELSE Append(end.acc, end.piece)

-----------------------------------------------------------------------------
(* The renderer: PdfRenderer and its methods, as functions on the record *)

\* TextStyle (lines 55-66)
TextStyle == {"H1", "H2", "H3", "H4", "H5", "H6", "Body", "Code", "Strong",
              "Emphasis"}

\* One entry of the call trace kept in self.log for the event being
\* processed: the operation and, for ensure_space, the space asked for, for
\* use_text, the index of the page written to.
Call(op, amount) == <<op, amount>>

Logged(r, op, amount) == [r EXCEPT !.log = Append(@, Call(op, amount))]

\* One text run of a page layer: the arguments of layer.use_text.  x_wrapped
\* says that 2^32 * INDENT_STEP is to be added to x (a wrapped u32 indent).
TextRun(text, size10, x, x_wrapped, y, font) ==
    [text |-> text, size |-> size10, x |-> x, x_wrapped |-> x_wrapped,
     y |-> y, font |-> font]

\* layer.use_text on the current page.
use_text(r, run) ==
    [Logged(r, "use_text", r.current_page)
        EXCEPT !.doc[r.current_page] = Append(@, run)]

\* PdfRenderer::new (lines 69-92): PdfDocument::new gives one empty page.
new ==
    [doc |-> << <<>> >>,
     current_page |-> 1,
     current_y |-> PAGE_HEIGHT - MARGIN_TOP,
     current_font_size |-> FONT_SIZE_BODY,
     current_line_height |-> LINE_HEIGHT_BODY,
     page_number |-> 1,
     log |-> <<>>]

\* set_text_style (lines 198-234)
set_text_style(r, style) ==
    CASE style = "H1" ->
           [r EXCEPT !.current_font_size = FONT_SIZE_H1,
                     !.current_line_height = LINE_HEIGHT_H1]
      [] style = "H2" ->
           [r EXCEPT !.current_font_size = FONT_SIZE_H2,
                     !.current_line_height = LINE_HEIGHT_H2]
      [] style = "H3" ->
           [r EXCEPT !.current_font_size = FONT_SIZE_H3,
                     !.current_line_height = LINE_HEIGHT_H3]
      [] style = "H4" ->
           [r EXCEPT !.current_font_size = FONT_SIZE_H4,
                     !.current_line_height = LINE_HEIGHT_BODY]
      [] style = "H5" ->
           [r EXCEPT !.current_font_size = FONT_SIZE_H5,
                     !.current_line_height = LINE_HEIGHT_BODY]
      [] style = "H6" ->
           [r EXCEPT !.current_font_size = FONT_SIZE_H6,
                     !.current_line_height = LINE_HEIGHT_BODY]
      [] style = "Body" ->
           [r EXCEPT !.current_font_size = FONT_SIZE_BODY,
                     !.current_line_height = LINE_HEIGHT_BODY]
      [] style = "Code" ->
           [r EXCEPT !.current_font_size = FONT_SIZE_CODE,
                     !.current_line_height = LINE_HEIGHT_CODE]
      [] OTHER -> r

\* get_font_for_style (lines 236-244): the key into self.fonts.
get_font_for_style(style) ==
    CASE style = "Code" -> "mono"
      [] style = "Strong" -> "bold"
      [] style = "Emphasis" -> "italic"
      [] style \in {"H1", "H2", "H3"} -> "bold"
      [] OTHER -> "regular"

\* The decimal digits of n, as format!("{}", n) writes them.
DigitChar(d) == <<"0", "1", "2", "3", "4", "5", "6", "7", "8", "9">>[d + 1]

RECURSIVE Decimal(_)
Decimal(n) ==
    IF n < 10 THEN <<DigitChar(n)>>
    ELSE Append(Decimal(n \div 10), DigitChar(n % 10))

\* format!("- {} -", page_number) (line 265)
FooterText(n) == <<"-", " ">> \o Decimal(n) \o <<" ", "-">>

\* new_page without the move of current_page to the page added.
new_page_keeping_current_page(r) ==
    LET n == r.page_number + 1
        added == [Logged(r, "new_page", 0)
                    EXCEPT !.page_number = n,
                           !.doc = Append(@, <<>>),
                           !.current_y = PAGE_HEIGHT - MARGIN_TOP]
    IN  use_text(added,
                 TextRun(FooterText(n), 80, PAGE_WIDTH \div 2 - 10 * MM, FALSE,
                         MARGIN_BOTTOM \div 2, "regular"))

\* new_page (lines 255-273)
new_page(r) ==
    LET n == r.page_number + 1
        added == [Logged(r, "new_page", 0)
                    EXCEPT !.page_number = n,
                           !.doc = Append(@, <<>>),
                           !.current_page = Len(r.doc) + 1,
                           !.current_y = PAGE_HEIGHT - MARGIN_TOP]
    IN  use_text(added,
                 TextRun(FooterText(n), 80, PAGE_WIDTH \div 2 - 10 * MM, FALSE,
                         MARGIN_BOTTOM \div 2, "regular"))

\* ensure_space with the bottom margin left out of the test.
ensure_space_ignoring_margin(r, space) ==
    LET called == Logged(r, "ensure_space", space)
    IN  IF called.current_y - space < 0
        THEN new_page(called)
        ELSE [called EXCEPT !.current_y = @ - space]

\* ensure_space testing the cursor before the space is taken from it.
ensure_space_before_taking(r, space) ==
    LET called == Logged(r, "ensure_space", space)
    IN  IF called.current_y < MARGIN_BOTTOM
        THEN new_page(called)
        ELSE [called EXCEPT !.current_y = @ - space]

\* ensure_space taking the space from the cursor of the page it adds.
ensure_space_deducting_on_new_page(r, space) ==
    LET called == Logged(r, "ensure_space", space)
    IN  IF called.current_y - space < MARGIN_BOTTOM
        THEN [new_page(called) EXCEPT !.current_y = @ - space]
        ELSE [called EXCEPT !.current_y = @ - space]

\* ensure_space (lines 246-253)
ensure_space(r, space) ==
    LET called == Logged(r, "ensure_space", space)
    IN  IF called.current_y - space < MARGIN_BOTTOM
        THEN new_page(called)
        ELSE [called EXCEPT !.current_y = @ - space]

\* LineSpacing taken from the Body style whatever style is current.
LineSpacing_of_body(r) == PtToMm100(FONT_SIZE_BODY * LINE_HEIGHT_BODY)

\* The line_spacing of new_line (line 276).
LineSpacing(r) == PtToMm100(r.current_font_size * r.current_line_height)

\* new_line with the line-height multiplier left out.
new_line_without_multiplier(r) ==
    ensure_space(Logged(r, "new_line", 0),
                 PtToMm100(r.current_font_size * 100))

\* new_line (lines 275-279)
new_line(r) == ensure_space(Logged(r, "new_line", 0), LineSpacing(r))

\* add_text_at_position (lines 298-304): the font is that of TextStyle::Body.
add_text_at_position(r, text, x, x_wrapped, y) ==
    use_text(r, TextRun(text, r.current_font_size * 10, x, x_wrapped, y,
                        get_font_for_style("Body")))

\* The max_chars of wrap_text (lines 337-338); the cast to usize gives 0 for
\* a negative quotient.
MaxChars(r, max_width) ==
    IF max_width < 0 THEN 0
    ELSE max_width \div ApproxCharWidth(r.current_font_size)

\* WrapWord with the separating space left out of the test.
WrapWord_without_separator(st, word, max_chars) ==
    IF ByteLen(st.current_line) + ByteLen(word) > max_chars
       /\ st.current_line # <<>>
    THEN [lines |-> Append(st.lines, st.current_line), current_line |-> word]
    ELSE [lines |-> st.lines,
          current_line |-> IF st.current_line # <<>>
                           THEN st.current_line \o <<" ">> \o word
                           ELSE word]

\* One pass of the loop of wrap_text (lines 340-350) for the word `word`:
\* st holds the lines pushed and the line under construction.
WrapWord(st, word, max_chars) ==
    IF ByteLen(st.current_line) + ByteLen(word) + 1 > max_chars
       /\ st.current_line # <<>>
    THEN [lines |-> Append(st.lines, st.current_line), current_line |-> word]
    ELSE [lines |-> st.lines,
          current_line |-> IF st.current_line # <<>>
                           THEN st.current_line \o <<" ">> \o word
                           ELSE word]

\* wrap_text (lines 330-361)
wrap_text(r, text, max_width) ==
    LET words == split_whitespace(text)
        max_chars == MaxChars(r, max_width)
        Pass(st, i) == WrapWord(st, words[i], max_chars)
        w == ForEach(Pass, [lines |-> <<>>, current_line |-> <<>>], 1,
                     Len(words))
        pushed == IF w.current_line # <<>>
                  THEN Append(w.lines, w.current_line)
                  ELSE w.lines
    IN  IF pushed = <<>> THEN << <<>> >> ELSE pushed

\* One pass of the loop of add_text_with_indent (lines 288-293).
PlaceLine(r, line, indent) ==
    new_line(IF ~TrimIsEmpty(line)
             THEN add_text_at_position(r, line, MARGIN_LEFT + indent, FALSE,
                                       r.current_y)
             ELSE r)

\* add_text_with_indent (lines 285-296)
add_text_with_indent(r, text, indent) ==
    LET ls == wrap_text(r, text, TEXT_WIDTH - indent)
        Pass(st, i) == PlaceLine(st, ls[i], indent)
    IN  ForEach(Pass, r, 1, Len(ls))

\* add_text (lines 281-283)
add_text(r, text) == add_text_with_indent(r, text, 0)

\* One pass of the loop of add_code_block (lines 309-319).
PlaceCodeLine(r, line) ==
    new_line(use_text(r, TextRun(line, r.current_font_size * 10,
                                 MARGIN_LEFT + 5 * MM, FALSE, r.current_y,
                                 "mono")))

\* add_code_block sending the code through the word wrap.
add_code_block_wrapped(r, code) == add_text_with_indent(r, code, 5 * MM)

\* add_code_block (lines 306-322)
add_code_block(r, code) ==
    LET ls == lines(code)
        Pass(st, i) == PlaceCodeLine(st, ls[i])
    IN  ForEach(Pass, r, 1, Len(ls))

\* add_inline_code at the full current font size.
add_inline_code_at_full_size(r, code) ==
    use_text(r, TextRun(code, r.current_font_size * 10, MARGIN_LEFT, FALSE,
                        r.current_y, "mono"))

\* add_inline_code (lines 324-328): 0.9 of the font size, in tenths of a point.
add_inline_code(r, code) ==
    use_text(r, TextRun(code, r.current_font_size * 9, MARGIN_LEFT, FALSE,
                        r.current_y, "mono"))

-----------------------------------------------------------------------------
(* Inputs *)

MaxEvents == 3
MaxScript == 6
MaxCalls == 4
MaxTextLen == 6

\* n copies of the string s.
Rep(s, n) == [i \in 1..(n * Len(s)) |-> s[((i - 1) % Len(s)) + 1]]

Title == <<"T", "i", "t", "l", "e">>
HelloWorld == <<"H", "e", "l", "l", "o", " ", "w", "o", "r", "l", "d">>
\* Three words of 40 characters: a line of 122 characters.
ThreeWords == SubSeq(Rep(Rep(<<"x">>, 40) \o <<" ">>, 3), 1, 122)
\* Physical lines ended by "\r\n" and "\n", an empty line, and a last line
\* longer than any wrap limit with no line ending.
MixedLines ==
    <<"a", "b", "\r", "\n", "c", " ", " ", "d", "\n", "\n">> \o ThreeWords
\* 62 lines of code after a code block's 8 mm leave less than one line above
\* the bottom margin.
Code62 == Rep(<<"a", "\n">>, 62)

Texts == {<<>>, <<" ">>, HelloWorld, MixedLines, Code62}
\* The texts and heading levels of the specification of the scenario.
ScriptTexts == {Title, HelloWorld}
ScriptLevels == {1, 2}
InlineCodes == {<<"f", "(", ")">>}
HeadingLevels == 1..6

\* All strings over alphabet A of length at most n.
RECURSIVE StringsUpTo(_, _)
StringsUpTo(A, n) ==
    IF n = 0 THEN {<<>>}
    ELSE LET shorter == StringsUpTo(A, n - 1)
         IN  shorter \cup {Append(t, c) : t \in {u \in shorter : Len(u) = n - 1},
                                          c \in A}

WrapTexts == StringsUpTo({"a", " ", "U+00E9"}, MaxTextLen)
\* The list levels whose width TEXT_WIDTH - level * 10 mm wrap_text is given.
WrapLevels == {0, 14, 15, 16, 17}
\* The styles set_text_style can make current.
BaseStyles == {"H1", "H2", "H3", "H4", "H5", "H6", "Body", "Code"}

\* Amounts handed to ensure_space directly.
Amounts == {0, 1, 3 * MM, 8 * MM, 12 * MM, 100 * MM, 123 * MM + MM \div 2,
            247 * MM, 247 * MM + 1}

\* pulldown_cmark::Event, as much of it as render_events reads.
Ev(kind, tag, level, text) ==
    [kind |-> kind, tag |-> tag, level |-> level, text |-> text]

-----------------------------------------------------------------------------
(* render_events (lines 94-196): one action per match arm *)

\* HeadingStyle giving the levels below H3 the style of H3.
HeadingStyle_up_to_h3(level) == <<"H1", "H2", "H3", "H3", "H3", "H3">>[level]

\* The style of a heading level (lines 107-114).
HeadingStyle(level) == <<"H1", "H2", "H3", "H4", "H5", "H6">>[level]

\* The loop takes the next element of the slice.
CanStep(n) == result = "Ok" /\ Len(events) < n

\* self as the arm finds it, with the call trace of the previous event dropped.
Begin == [self EXCEPT !.log = <<>>]

Consume(e) ==
    /\ events' = Append(events, e)
    /\ UNCHANGED <<wrap_args, wrap_ret, document_vars>>

\* Tag::Heading (lines 104-116)
StartHeading(n, Levels) ==
    /\ CanStep(n)
    /\ \E level \in Levels :
         /\ self' = set_text_style(ensure_space(Begin, HEADING_SPACING_BEFORE),
                                   HeadingStyle(level))
         /\ in_heading' = level
         /\ Consume(Ev("Start", "Heading", level, <<>>))
    /\ UNCHANGED <<text_stack, in_code_block, list_level, result>>

\* Tag::Paragraph (lines 117-120)
StartParagraph(n) ==
    /\ CanStep(n)
    /\ self' = set_text_style(ensure_space(Begin, PARAGRAPH_SPACING \div 2),
                              "Body")
    /\ Consume(Ev("Start", "Paragraph", 0, <<>>))
    /\ UNCHANGED <<text_stack, in_code_block, in_heading, list_level, result>>

\* Tag::CodeBlock (lines 121-125)
StartCodeBlock(n) ==
    /\ CanStep(n)
    /\ self' = set_text_style(ensure_space(Begin, CODE_BLOCK_SPACING), "Code")
    /\ in_code_block' = TRUE
    /\ Consume(Ev("Start", "CodeBlock", 0, <<>>))
    /\ UNCHANGED <<text_stack, in_heading, list_level, result>>

\* Tag::List (lines 126-129)
StartList(n) ==
    /\ CanStep(n)
    /\ list_level' = list_level + 1
    /\ self' = ensure_space(Begin, PARAGRAPH_SPACING \div 2)
    /\ Consume(Ev("Start", "List", 0, <<>>))
    /\ UNCHANGED <<text_stack, in_code_block, in_heading, result>>

\* Bullet with the same glyph at every level.
Bullet_at_every_level(level) == <<"U+2022">>

\* The bullet of line 133.
Bullet(level) == IF level = 1 THEN <<"U+2022">> ELSE <<"U+25E6">>

\* Tag::Item (lines 130-135).  list_level - 1 is a u32 subtraction: at level 0
\* it panics where overflow checks are compiled in and wraps to 2^32 - 1
\* where they are not.
StartItem(n) ==
    /\ CanStep(n)
    /\ \/ /\ list_level >= 1
          /\ self' = add_text_at_position(Begin, Bullet(list_level),
                        MARGIN_LEFT + (list_level - 1) * INDENT_STEP, FALSE,
                        self.current_y)
          /\ result' = result
       \/ /\ list_level = 0
          /\ self' = Begin
          /\ result' = "panic"
       \/ /\ list_level = 0
          /\ self' = add_text_at_position(Begin, Bullet(list_level),
                        MARGIN_LEFT - INDENT_STEP, TRUE, self.current_y)
          /\ result' = result
    /\ Consume(Ev("Start", "Item", 0, <<>>))
    /\ UNCHANGED <<text_stack, in_code_block, in_heading, list_level>>

\* Tag::Strong starting a new line for the strong text.
StartStrong_starting_line(n) ==
    /\ CanStep(n)
    /\ text_stack' = Append(text_stack, "Strong")
    /\ self' = new_line(Begin)
    /\ Consume(Ev("Start", "Strong", 0, <<>>))
    /\ UNCHANGED <<in_code_block, in_heading, list_level, result>>

\* Tag::Strong (lines 136-138)
StartStrong(n) ==
    /\ CanStep(n)
    /\ text_stack' = Append(text_stack, "Strong")
    /\ self' = Begin
    /\ Consume(Ev("Start", "Strong", 0, <<>>))
    /\ UNCHANGED <<in_code_block, in_heading, list_level, result>>

\* Tag::Emphasis (lines 139-141)
StartEmphasis(n) ==
    /\ CanStep(n)
    /\ text_stack' = Append(text_stack, "Emphasis")
    /\ self' = Begin
    /\ Consume(Ev("Start", "Emphasis", 0, <<>>))
    /\ UNCHANGED <<in_code_block, in_heading, list_level, result>>

\* Any other tag (line 142), here Tag::BlockQuote.
StartOther(n) ==
    /\ CanStep(n)
    /\ self' = Begin
    /\ Consume(Ev("Start", "BlockQuote", 0, <<>>))
    /\ UNCHANGED <<text_stack, in_code_block, in_heading, list_level, result>>

\* TagEnd::Heading (lines 147-151)
EndHeading(n) ==
    /\ CanStep(n)
    /\ in_heading' = 0
    /\ self' = set_text_style(ensure_space(Begin, HEADING_SPACING_AFTER), "Body")
    /\ Consume(Ev("End", "Heading", 0, <<>>))
    /\ UNCHANGED <<text_stack, in_code_block, list_level, result>>

\* TagEnd::Paragraph (lines 152-154)
EndParagraph(n) ==
    /\ CanStep(n)
    /\ self' = ensure_space(Begin, PARAGRAPH_SPACING \div 2)
    /\ Consume(Ev("End", "Paragraph", 0, <<>>))
    /\ UNCHANGED <<text_stack, in_code_block, in_heading, list_level, result>>

\* TagEnd::CodeBlock without the reset of the style.
EndCodeBlock_without_reset(n) ==
    /\ CanStep(n)
    /\ in_code_block' = FALSE
    /\ self' = ensure_space(Begin, CODE_BLOCK_SPACING)
    /\ Consume(Ev("End", "CodeBlock", 0, <<>>))
    /\ UNCHANGED <<text_stack, in_heading, list_level, result>>

\* TagEnd::CodeBlock (lines 155-159)
EndCodeBlock(n) ==
    /\ CanStep(n)
    /\ in_code_block' = FALSE
    /\ self' = set_text_style(ensure_space(Begin, CODE_BLOCK_SPACING), "Body")
    /\ Consume(Ev("End", "CodeBlock", 0, <<>>))
    /\ UNCHANGED <<text_stack, in_heading, list_level, result>>

\* A subtraction that does not stop at zero.
unchecked_sub(a, b) == a - b

\* u32::saturating_sub
saturating_sub(a, b) == IF a - b < 0 THEN 0 ELSE a - b

\* TagEnd::List (lines 160-163)
EndList(n) ==
    /\ CanStep(n)
    /\ list_level' = saturating_sub(list_level, 1)
    /\ self' = ensure_space(Begin, PARAGRAPH_SPACING \div 2)
    /\ Consume(Ev("End", "List", 0, <<>>))
    /\ UNCHANGED <<text_stack, in_code_block, in_heading, result>>

\* Vec::pop: nothing happens to an empty vector.
pop(v) == IF v = <<>> THEN v ELSE SubSeq(v, 1, Len(v) - 1)

\* TagEnd::Strong | TagEnd::Emphasis (lines 164-166)
EndStrongOrEmphasis(n) ==
    /\ CanStep(n)
    /\ text_stack' = pop(text_stack)
    /\ self' = Begin
    /\ \E tag \in {"Strong", "Emphasis"} : Consume(Ev("End", tag, 0, <<>>))
    /\ UNCHANGED <<in_code_block, in_heading, list_level, result>>

\* Any other end tag (line 167), here TagEnd::Item.
EndOther(n) ==
    /\ CanStep(n)
    /\ self' = Begin
    /\ Consume(Ev("End", "Item", 0, <<>>))
    /\ UNCHANGED <<text_stack, in_code_block, in_heading, list_level, result>>

\* TextIndent giving a text the indent of its item's bullet.
TextIndent_of_bullet(level) ==
    IF level > 0 THEN (level - 1) * INDENT_STEP ELSE 0

\* The indent of a Text event (lines 174-178).
TextIndent(level) == IF level > 0 THEN level * INDENT_STEP ELSE 0

\* What Event::Text does to the renderer (lines 171-180).
RenderText(r, text, in_code, level) ==
    IF in_code THEN add_code_block(r, text)
    ELSE add_text_with_indent(r, text, TextIndent(level))

\* Event::Text (lines 170-181)
Text(n, Ts) ==
    /\ CanStep(n)
    /\ \E text \in Ts :
         /\ self' = RenderText(Begin, text, in_code_block, list_level)
         /\ Consume(Ev("Text", "", 0, text))
    /\ UNCHANGED <<text_stack, in_code_block, in_heading, list_level, result>>

\* Event::Code (lines 182-184)
Code(n, Cs) ==
    /\ CanStep(n)
    /\ \E code \in Cs :
         /\ self' = add_inline_code(Begin, code)
         /\ Consume(Ev("Code", "", 0, code))
    /\ UNCHANGED <<text_stack, in_code_block, in_heading, list_level, result>>

\* Event::SoftBreak (lines 185-187)
SoftBreak(n) ==
    /\ CanStep(n)
    /\ self' = add_text(Begin, <<" ">>)
    /\ Consume(Ev("SoftBreak", "", 0, <<>>))
    /\ UNCHANGED <<text_stack, in_code_block, in_heading, list_level, result>>

\* Event::HardBreak (lines 188-190)
HardBreak(n) ==
    /\ CanStep(n)
    /\ self' = new_line(Begin)
    /\ Consume(Ev("HardBreak", "", 0, <<>>))
    /\ UNCHANGED <<text_stack, in_code_block, in_heading, list_level, result>>

\* Any other event (line 191), here Event::Rule.
OtherEvent(n) ==
    /\ CanStep(n)
    /\ self' = Begin
    /\ Consume(Ev("Rule", "", 0, <<>>))
    /\ UNCHANGED <<text_stack, in_code_block, in_heading, list_level, result>>

\* The body of the loop of render_events (lines 101-192) for the event e, as
\* a function of the renderer and the locals.  aborts says that the u32
\* subtraction of line 132 panics at level 0; it wraps otherwise.
render_event(st, e, aborts) ==
    LET r == [st.self EXCEPT !.log = <<>>]
        on == [st EXCEPT !.self = r]
    IN  CASE e.kind = "Start" /\ e.tag = "Heading" ->
               [on EXCEPT !.self = set_text_style(
                                      ensure_space(r, HEADING_SPACING_BEFORE),
                                      HeadingStyle(e.level)),
                          !.in_heading = e.level]
          [] e.kind = "Start" /\ e.tag = "Paragraph" ->
               [on EXCEPT !.self = set_text_style(
                                      ensure_space(r, PARAGRAPH_SPACING \div 2),
                                      "Body")]
          [] e.kind = "Start" /\ e.tag = "CodeBlock" ->
               [on EXCEPT !.self = set_text_style(
                                      ensure_space(r, CODE_BLOCK_SPACING),
                                      "Code"),
                          !.in_code_block = TRUE]
          [] e.kind = "Start" /\ e.tag = "List" ->
               [on EXCEPT !.self = ensure_space(r, PARAGRAPH_SPACING \div 2),
                          !.list_level = @ + 1]
          [] e.kind = "Start" /\ e.tag = "Item" ->
               IF st.list_level >= 1
               THEN [on EXCEPT !.self = add_text_at_position(r,
                                   Bullet(st.list_level),
                                   MARGIN_LEFT
                                     + (st.list_level - 1) * INDENT_STEP,
                                   FALSE, r.current_y)]
               ELSE IF aborts THEN [on EXCEPT !.result = "panic"]
               ELSE [on EXCEPT !.self = add_text_at_position(r,
                                   Bullet(st.list_level),
                                   MARGIN_LEFT - INDENT_STEP, TRUE,
                                   r.current_y)]
          [] e.kind = "Start" /\ e.tag \in {"Strong", "Emphasis"} ->
               [on EXCEPT !.text_stack = Append(@, e.tag)]
          [] e.kind = "End" /\ e.tag = "Heading" ->
               [on EXCEPT !.self = set_text_style(
                                      ensure_space(r, HEADING_SPACING_AFTER),
                                      "Body"),
                          !.in_heading = 0]
          [] e.kind = "End" /\ e.tag = "Paragraph" ->
               [on EXCEPT !.self = ensure_space(r, PARAGRAPH_SPACING \div 2)]
          [] e.kind = "End" /\ e.tag = "CodeBlock" ->
               [on EXCEPT !.self = set_text_style(
                                      ensure_space(r, CODE_BLOCK_SPACING),
                                      "Body"),
                          !.in_code_block = FALSE]
          [] e.kind = "End" /\ e.tag = "List" ->
               [on EXCEPT !.self = ensure_space(r, PARAGRAPH_SPACING \div 2),
                          !.list_level = saturating_sub(@, 1)]
          [] e.kind = "End" /\ e.tag \in {"Strong", "Emphasis"} ->
               [on EXCEPT !.text_stack = pop(@)]
          [] e.kind = "Text" ->
               [on EXCEPT !.self = RenderText(r, e.text, st.in_code_block,
                                              st.list_level)]
          [] e.kind = "Code" ->
               [on EXCEPT !.self = add_inline_code(r, e.text)]
          [] e.kind = "SoftBreak" ->
               [on EXCEPT !.self = add_text(r, <<" ">>)]
          [] e.kind = "HardBreak" ->
               [on EXCEPT !.self = new_line(r)]
          [] OTHER -> on

\* render_events (lines 94-196) on the slice evs of a fresh renderer; aborts
\* says that the run ends in a panic at the last event of the slice.
render_events(evs, aborts) ==
    LET Pass(st, i) == render_event(st, evs[i], aborts /\ i = Len(evs))
    IN  ForEach(Pass,
                [self |-> new, text_stack |-> <<>>, in_code_block |-> FALSE,
                 in_heading |-> 0, list_level |-> 0, result |-> "Ok"],
                1, Len(evs))

-----------------------------------------------------------------------------
(* tagflow-rust-pyo3/src/lib.rs: the Document tag builder *)

\* The characters the regex class \w matches, among those the model uses.
IsWordChar(c) ==
    c \in {"a", "b", "c", "d", "i", "l", "p", "r", "s", "t", "v", "x", "_",
           "1"}

\* convert_attr_name (lines 14-24); the regex (\w)_(\w) is replaced by
\* $1-$2 at each match found from the left, matches not overlapping.
convert_attr_name(name) ==
    IF name = <<"c", "l", "a", "s", "s", "_">>
       \/ name = <<"c", "l", "a", "s", "s", "e", "s">>
    THEN <<"c", "l", "a", "s", "s">>
    ELSE IF name # <<>> /\ name[Len(name)] = "_"
    THEN SubSeq(name, 1, Len(name) - 1)
    ELSE LET Scan(st, i) ==
                 IF st.skip > 0 THEN [st EXCEPT !.skip = @ - 1]
                 ELSE IF /\ i + 2 <= Len(name)
                         /\ IsWordChar(name[i])
                         /\ name[i + 1] = "_"
                         /\ IsWordChar(name[i + 2])
                 THEN [out |-> st.out \o <<name[i], "-", name[i + 2]>>,
                       skip |-> 2]
                 ELSE [out |-> Append(st.out, name[i]), skip |-> 0]
         IN  ForEach(Scan, [out |-> <<>>, skip |-> 0], 1, Len(name)).out

\* A string with each character replaced by what Sub gives for it.
Substituted(str, Sub(_)) ==
    LET Add(acc, i) == acc \o Sub(str[i])
    IN  ForEach(Add, <<>>, 1, Len(str))

\* escape_text (lines 27-29): html_escape::encode_text.
escape_text(content) ==
    LET Sub(c) == CASE c = "&" -> <<"&", "a", "m", "p", ";">>
                    [] c = "<" -> <<"&", "l", "t", ";">>
                    [] c = ">" -> <<"&", "g", "t", ";">>
                    [] OTHER -> <<c>>
    IN  Substituted(content, Sub)

\* html_escape::encode_double_quoted_attribute (line 114), on values made of
\* letters, digits, the ampersand and the double quote.
encode_double_quoted_attribute(value) ==
    LET Sub(c) == CASE c = "&" -> <<"&", "a", "m", "p", ";">>
                    [] c = "\"" -> <<"&", "q", "u", "o", "t", ";">>
                    [] OTHER -> <<c>>
    IN  Substituted(value, Sub)

\* str::to_lowercase, on the letters the model uses.
to_lowercase(str) ==
    LET Sub(c) == CASE c = "B" -> <<"b">>
                    [] c = "R" -> <<"r">>
                    [] OTHER -> <<c>>
    IN  Substituted(str, Sub)

\* is_self_closing (lines 32-37)
is_self_closing(tag_name) ==
    to_lowercase(tag_name) \in
        {<<"a", "r", "e", "a">>, <<"b", "a", "s", "e">>, <<"b", "r">>,
         <<"c", "o", "l">>, <<"e", "m", "b", "e", "d">>, <<"h", "r">>,
         <<"i", "m", "g">>, <<"i", "n", "p", "u", "t">>,
         <<"l", "i", "n", "k">>, <<"m", "e", "t", "a">>,
         <<"p", "a", "r", "a", "m">>, <<"s", "o", "u", "r", "c", "e">>,
         <<"t", "r", "a", "c", "k">>, <<"w", "b", "r">>}

\* The strings of a sequence joined with the separator sep between them
\* (slice::join).
Joined(strs, sep) ==
    LET Add(acc, i) == IF i = 1 THEN strs[1] ELSE acc \o sep \o strs[i]
    IN  ForEach(Add, <<>>, 1, Len(strs))

\* Document::new (lines 78-83)
Document_new == [parts |-> <<>>, tag_stack |-> <<>>]

\* The attr_str of Document::tag (lines 108-121); kwargs is the sequence of
\* the (key, value) entries of the dictionary, a value None being "".
AttrStr(kwargs) ==
    LET kept == SelectSeq(kwargs, LAMBDA kv : kv.value # <<>>)
        attr_parts ==
            [i \in 1..Len(kept) |->
                convert_attr_name(kept[i].key) \o <<"=", "\"">>
                    \o encode_double_quoted_attribute(kept[i].value)
                    \o <<"\"">>]
    IN  IF attr_parts # <<>> THEN <<" ">> \o Joined(attr_parts, <<" ">>)
        ELSE <<>>

\* The opening_tag of Document::tag (lines 123-127).
OpeningTag(tag_name, kwargs) ==
    IF is_self_closing(tag_name)
    THEN <<"<">> \o tag_name \o AttrStr(kwargs) \o <<" ", "/", ">">>
    ELSE <<"<">> \o tag_name \o AttrStr(kwargs) \o <<">">>

\* Document::tag (lines 87-141), its effect on the Document.
Document_tag(d, tag_name, kwargs) ==
    [parts |-> Append(d.parts, OpeningTag(tag_name, kwargs)),
     tag_stack |-> IF ~is_self_closing(tag_name)
                   THEN Append(d.tag_stack, tag_name)
                   ELSE d.tag_stack]

\* Document::text (lines 144-152); content is <<str(content)>>, or <<>> for
\* None.
Document_text(d, content) ==
    IF content # <<>>
    THEN [d EXCEPT !.parts = Append(@, escape_text(content[1]))]
    ELSE d

\* Document::raw (lines 155-162)
Document_raw(d, content) ==
    IF content # <<>>
    THEN [d EXCEPT !.parts = Append(@, content[1])]
    ELSE d

\* close_tag taking the tag opened first.
Document_close_tag_oldest(d) ==
    IF d.tag_stack # <<>>
    THEN [parts |-> Append(d.parts, <<"<", "/">> \o d.tag_stack[1]
                                       \o <<">">>),
          tag_stack |-> SubSeq(d.tag_stack, 2, Len(d.tag_stack))]
    ELSE d

\* Document::close_tag (lines 165-170)
Document_close_tag(d) ==
    IF d.tag_stack # <<>>
    THEN [parts |-> Append(d.parts,
                           <<"<", "/">> \o d.tag_stack[Len(d.tag_stack)]
                               \o <<">">>),
          tag_stack |-> SubSeq(d.tag_stack, 1, Len(d.tag_stack) - 1)]
    ELSE d

\* The message of the error of render (line 183), up to the tag names.
UnclosedTags ==
    <<"U", "n", "c", "l", "o", "s", "e", "d", " ", "t", "a", "g", "s", ":",
      " ">>

\* Document::render (lines 180-186): the value returned.
Document_render(d) ==
    IF d.tag_stack # <<>>
    THEN [kind |-> "Err",
          value |-> UnclosedTags \o Joined(d.tag_stack, <<",", " ">>)]
    ELSE [kind |-> "Ok", value |-> Joined(d.parts, <<>>)]

\* Document::clear (lines 189-192)
Document_clear(d) == [parts |-> <<>>, tag_stack |-> <<>>]

-----------------------------------------------------------------------------
(* Specifications *)

\* PdfRenderer::new followed by the entry of render_events (lines 95-98).
Init ==
    /\ self = new
    /\ text_stack = <<>>
    /\ in_code_block = FALSE
    /\ in_heading = 0
    /\ list_level = 0
    /\ events = <<>>
    /\ result = "Ok"
    /\ wrap_args = [text |-> <<>>, max_width |-> 0]
    /\ wrap_ret = <<>>
    /\ document = Document_new
    /\ calls = <<>>
    /\ returned = [op |-> "new", kind |-> "Ok", value |-> <<>>]

\* render_events on any slice of at most MaxEvents events.
Next ==
    \/ StartHeading(MaxEvents, HeadingLevels)
    \/ StartParagraph(MaxEvents)
    \/ StartCodeBlock(MaxEvents)
    \/ StartList(MaxEvents)
    \/ StartItem(MaxEvents)
    \/ StartStrong(MaxEvents)
    \/ StartEmphasis(MaxEvents)
    \/ StartOther(MaxEvents)
    \/ EndHeading(MaxEvents)
    \/ EndParagraph(MaxEvents)
    \/ EndCodeBlock(MaxEvents)
    \/ EndList(MaxEvents)
    \/ EndStrongOrEmphasis(MaxEvents)
    \/ EndOther(MaxEvents)
    \/ Text(MaxEvents, Texts)
    \/ Code(MaxEvents, InlineCodes)
    \/ SoftBreak(MaxEvents)
    \/ HardBreak(MaxEvents)
    \/ OtherEvent(MaxEvents)

Spec == Init /\ [][Next]_vars

\* render_events on slices of at most MaxScript events made of headings,
\* paragraphs and their texts.
NextScenario ==
    \/ StartHeading(MaxScript, ScriptLevels)
    \/ EndHeading(MaxScript)
    \/ StartParagraph(MaxScript)
    \/ EndParagraph(MaxScript)
    \/ Text(MaxScript, ScriptTexts)

SpecScenario == Init /\ [][NextScenario]_vars

\* The number of ensure_space calls in a call trace.
EnsureCalls(log) == Len(SelectSeq(log, LAMBDA c : c[1] = "ensure_space"))

\* ensure_space called directly on the renderer; the call trace is kept whole.
EnsureSpace ==
    /\ EnsureCalls(self.log) < MaxCalls
    /\ \E space \in Amounts : self' = ensure_space(self, space)
    /\ UNCHANGED <<text_stack, in_code_block, in_heading, list_level, events,
                   result, wrap_args, wrap_ret, document_vars>>

NextEnsure == EnsureSpace

SpecEnsure == Init /\ [][NextEnsure]_vars

\* wrap_text as a function of its arguments and of the current font size: a
\* renderer in any style, any text of WrapTexts, any width a list level
\* gives.  The Code style is current outside add_code_block only for a
\* SoftBreak inside a code block, which wraps at the full width.
InitWrap ==
    /\ \E style \in BaseStyles, level \in WrapLevels, text \in WrapTexts :
          /\ style = "Code" => level = 0
          /\ self = set_text_style(new, style)
          /\ wrap_args = [text |-> text,
                          max_width |-> TEXT_WIDTH - level * INDENT_STEP]
    /\ wrap_ret = <<>>
    /\ document = Document_new
    /\ calls = <<>>
    /\ returned = [op |-> "new", kind |-> "Ok", value |-> <<>>]
    /\ text_stack = <<>>
    /\ in_code_block = FALSE
    /\ in_heading = 0
    /\ list_level = 0
    /\ events = <<>>
    /\ result = "Ok"

WrapText ==
    /\ wrap_ret = <<>>
    /\ wrap_ret' = <<wrap_text(self, wrap_args.text, wrap_args.max_width)>>
    /\ UNCHANGED <<self, text_stack, in_code_block, in_heading, list_level,
                   events, result, wrap_args, document_vars>>

NextWrap == WrapText

SpecWrap == InitWrap /\ [][NextWrap]_vars

\* The variables of the renderer and of its drivers.
renderer_vars == <<self, text_stack, in_code_block, in_heading, list_level,
                   events, result, wrap_args, wrap_ret>>

MaxOps == 4

Div == <<"d", "i", "v">>
Para == <<"p">>
UpperBr == <<"B", "R">>
ClassKey == <<"c", "l", "a", "s", "s", "_">>
DataKey == <<"d", "a", "t", "a", "_", "x">>

\* The arguments given to Document::tag: a tag name and the keyword
\* arguments, at most one so that the order of the HashMap does not matter.
TagArgs ==
    {[tag_name |-> Div, kwargs |-> <<>>],
     [tag_name |-> Para, kwargs |-> <<>>],
     [tag_name |-> UpperBr, kwargs |-> <<>>],
     [tag_name |-> Div,
      kwargs |-> <<[key |-> ClassKey, value |-> <<"a", "\"">>]>>],
     [tag_name |-> UpperBr,
      kwargs |-> <<[key |-> DataKey, value |-> <<"1">>]>>],
     [tag_name |-> Para, kwargs |-> <<[key |-> DataKey, value |-> <<>>]>>]}

\* The contents given to text and raw: None (<<>>) or a string.
TextContents == {<<>>, << <<"<", "a">> >>}
RawContents == {<<>>, << <<"<", "i", ">">> >>}

\* A call on the Document, as the driver records it.
DocCall(op, tag_name, kwargs, content) ==
    [op |-> op, tag_name |-> tag_name, kwargs |-> kwargs, content |-> content]

Returns(op, kind, value) == [op |-> op, kind |-> kind, value |-> value]

\* document.tag(tag_name, **kwargs) and the shortcuts div(), p(), br(), ...
DocumentTag ==
    /\ Len(calls) < MaxOps
    /\ \E a \in TagArgs :
         /\ document' = Document_tag(document, a.tag_name, a.kwargs)
         /\ calls' = Append(calls, DocCall("tag", a.tag_name, a.kwargs, <<>>))
         /\ returned' = Returns("tag", "Ok",
                                 <<a.tag_name, is_self_closing(a.tag_name)>>)
    /\ UNCHANGED renderer_vars

\* document.text(content)
DocumentText ==
    /\ Len(calls) < MaxOps
    /\ \E content \in TextContents :
         /\ document' = Document_text(document, content)
         /\ calls' = Append(calls, DocCall("text", <<>>, <<>>, content))
    /\ returned' = Returns("text", "Ok", <<>>)
    /\ UNCHANGED renderer_vars

\* document.raw(content)
DocumentRaw ==
    /\ Len(calls) < MaxOps
    /\ \E content \in RawContents :
         /\ document' = Document_raw(document, content)
         /\ calls' = Append(calls, DocCall("raw", <<>>, <<>>, content))
    /\ returned' = Returns("raw", "Ok", <<>>)
    /\ UNCHANGED renderer_vars

\* document.close_tag()
DocumentCloseTag ==
    /\ Len(calls) < MaxOps
    /\ document' = Document_close_tag(document)
    /\ calls' = Append(calls, DocCall("close_tag", <<>>, <<>>, <<>>))
    /\ returned' = Returns("close_tag", "Ok", <<>>)
    /\ UNCHANGED renderer_vars

\* document.attr(name, value) (lines 173-177): always the error.
DocumentAttr ==
    /\ returned' = Returns("attr", "Err", "Dynamic attributes not supported")
    /\ UNCHANGED <<document, calls>>
    /\ UNCHANGED renderer_vars

\* document.render() and str(document) (lines 194-196)
DocumentRender ==
    /\ LET r == Document_render(document)
       IN  returned' = Returns("render", r.kind, r.value)
    /\ UNCHANGED <<document, calls>>
    /\ UNCHANGED renderer_vars

\* document.clear()
DocumentClear ==
    /\ Len(calls) < MaxOps
    /\ document' = Document_clear(document)
    /\ calls' = Append(calls, DocCall("clear", <<>>, <<>>, <<>>))
    /\ returned' = Returns("clear", "Ok", <<>>)
    /\ UNCHANGED renderer_vars

NextDocument ==
    \/ DocumentTag
    \/ DocumentText
    \/ DocumentRaw
    \/ DocumentCloseTag
    \/ DocumentAttr
    \/ DocumentRender
    \/ DocumentClear

\* Any calls on a Document made by Document::new, at most MaxOps of them
\* other than render and attr.
SpecDocument == Init /\ [][NextDocument]_vars

-----------------------------------------------------------------------------
(* Observations used by the properties *)

\* Every text run of the document in the order of placing: use_text always
\* writes to the last page.
AllRuns(doc) ==
    LET Add(acc, p) == acc \o doc[p]
    IN  ForEach(Add, <<>>, 1, Len(doc))

\* A run at the place of the page-number footer (lines 264-270).
IsFooterRun(run) ==
    /\ run.y = MARGIN_BOTTOM \div 2
    /\ run.x = PAGE_WIDTH \div 2 - 10 * MM
    /\ run.size = 80

IsBodyRun(run) == ~IsFooterRun(run)

\* The runs the event processed last has placed, oldest first: as many as its
\* call trace has use_text entries.
EventRuns ==
    LET all == AllRuns(self.doc)
        k == Len(SelectSeq(self.log, LAMBDA c : c[1] = "use_text"))
    IN  SubSeq(all, Len(all) - k + 1, Len(all))

LastEvent == events[Len(events)]

LastIs(kind, tag) ==
    events # <<>> /\ LastEvent.kind = kind /\ LastEvent.tag = tag

IsBodyStyle(r) ==
    r.current_font_size = 11 /\ r.current_line_height = 140

TopOfPage == PAGE_HEIGHT - MARGIN_TOP

-----------------------------------------------------------------------------
(* Properties *)

\* The sum of the amounts of the ensure_space calls of a call trace.
ReservedSum(log) ==
    LET Add(n, i) == IF log[i][1] = "ensure_space" THEN n + log[i][2] ELSE n
    IN  ForEach(Add, 0, 1, Len(log))

\* C1: from a fresh renderer, once the amounts of the ensure_space calls (all
\* non-negative) sum to more than page_height - top_margin - bottom_margin
\* (247 mm), the document has more than one page.
C1_PaginationTrigger ==
    ReservedSum(self.log) > 247 * MM
        => Len(self.doc) > 1 /\ self.page_number > 1

\* C1 witness: several calls, none asking for more than 100 mm, have together
\* asked for more than 247 mm, and a second page exists.
C1_Witness ==
    /\ ReservedSum(self.log) > 247 * MM
    /\ \A i \in 1..Len(self.log) : self.log[i][2] <= 100 * MM
    /\ Len(self.doc) = 2

\* The footers of page p.
Footers(p) == SelectSeq(self.doc[p], IsFooterRun)

\* C2: every page, page 1 included, carries exactly one footer "- n -" with n
\* its 1-based index.
C2_FooterOnEveryPage ==
    \A p \in 1..Len(self.doc) :
        /\ Len(Footers(p)) = 1
        /\ Footers(p)[1].text = FooterText(p)

\* C3: after an empty event stream there is one page, its only text is the
\* footer of page 1, and the cursor is at page_height - top_margin.
C3_EmptyStream ==
    events = <<>> =>
        /\ Len(self.doc) = 1
        /\ Len(self.doc[1]) = 1
        /\ IsFooterRun(self.doc[1][1])
        /\ self.doc[1][1].text = FooterText(1)
        /\ self.current_y = TopOfPage

\* C4: the cursor is always between the bottom margin (25 mm) and
\* page_height - top_margin (272 mm), and so is every text run the last
\* event placed at the cursor.
C4_CursorWithinMargins ==
    /\ 25 * MM <= self.current_y
    /\ self.current_y <= 272 * MM
    /\ \A i \in 1..Len(EventRuns) :
          IsBodyRun(EventRuns[i]) =>
              25 * MM <= EventRuns[i].y /\ EventRuns[i].y <= 272 * MM

\* C4 witness: the last event has placed text on two pages and left the
\* cursor on a later page than the first.
C4_Witness ==
    /\ Len(self.doc) > 1
    /\ Len(SelectSeq(self.log, LAMBDA c : c[1] = "new_page")) = 1
    /\ IsBodyRun(EventRuns[1])
    /\ IsBodyRun(EventRuns[Len(EventRuns)])
    /\ self.current_y < 272 * MM

\* The lines wrap_text has returned.
WrapLines == wrap_ret[1]

\* A line that is one word: not empty, no whitespace in it.
IsSingleWord(line) ==
    line # <<>> /\ \A i \in 1..Len(line) : ~IsWhitespace(line[i])

\* floor(W / (S * 0.5 * 0.352778)) for the arguments wrap_text was given;
\* it is negative for a negative width W.
FloorMaxChars ==
    wrap_args.max_width \div (self.current_font_size * 176389)

\* C5 as stated: every line wrap_text returns has at most
\* floor(W / (S*0.5*0.352778)) characters, except a line that is a single word
\* longer than that.
C5_WrapBoundAsStated ==
    wrap_ret # <<>> =>
        \A i \in 1..Len(WrapLines) :
            \/ Len(WrapLines[i]) <= FloorMaxChars
            \/ IsSingleWord(WrapLines[i]) /\ Len(WrapLines[i]) > FloorMaxChars

\* The bound with the cast to usize applied: 0 for a negative width.
SaturatedMaxChars == IF FloorMaxChars < 0 THEN 0 ELSE FloorMaxChars

\* C5 amended: every line wrap_text returns has at most
\* max(0, floor(W / (S*0.5*0.352778))) characters (and bytes, which is what
\* the code counts), except a line that is a single word longer than that.
C5_WrapBound ==
    wrap_ret # <<>> =>
        \A i \in 1..Len(WrapLines) :
            /\ \/ Len(WrapLines[i]) <= SaturatedMaxChars
               \/ IsSingleWord(WrapLines[i])
                  /\ Len(WrapLines[i]) > SaturatedMaxChars
            /\ \/ ByteLen(WrapLines[i]) <= SaturatedMaxChars
               \/ IsSingleWord(WrapLines[i])
                  /\ ByteLen(WrapLines[i]) > SaturatedMaxChars

\* C5 witness: wrap_text has returned a line of several words that fills the
\* bound and a line that is one word longer than the bound.
C5_Witness ==
    /\ wrap_ret # <<>>
    /\ SaturatedMaxChars > 0
    /\ \E i \in 1..Len(WrapLines) :
          ~IsSingleWord(WrapLines[i])
          /\ ByteLen(WrapLines[i]) = SaturatedMaxChars
    /\ \E i \in 1..Len(WrapLines) :
          IsSingleWord(WrapLines[i])
          /\ ByteLen(WrapLines[i]) > SaturatedMaxChars

\* The text runs other than footers that the last event placed.
EventBodyRuns == SelectSeq(EventRuns, IsBodyRun)

\* The strings of a sequence of runs, each followed by a line feed.
Unlines(runs) ==
    LET Add(acc, i) == acc \o runs[i].text \o <<"\n">>
    IN  ForEach(Add, <<>>, 1, Len(runs))

\* A text with each "\r\n" read as "\n" and with a final "\n" if its last
\* line has none: its physical lines, each ended by a line feed.
PhysicalLines(text) ==
    LET Add(acc, i) ==
            IF text[i] = "\r" /\ i < Len(text) /\ text[i + 1] = "\n"
            THEN acc ELSE Append(acc, text[i])
        unix == ForEach(Add, <<>>, 1, Len(text))
    IN  IF unix # <<>> /\ unix[Len(unix)] # "\n"
        THEN Append(unix, "\n") ELSE unix

\* Entry i of the call trace places a text that is not a footer.
PlacesBody(log, i) ==
    log[i][1] = "use_text" /\ (i = 1 \/ log[i - 1][1] # "new_page")

\* C6: a Text event inside a code block places one line per physical line of
\* its text, in order and unchanged (no line is split, however long), and
\* each placement is followed at once by one line advance.
C6_CodeBlockFidelity ==
    (LastIs("Text", "") /\ in_code_block) =>
        /\ \A i \in 1..Len(EventBodyRuns) :
              \A j \in 1..Len(EventBodyRuns[i].text) :
                  EventBodyRuns[i].text[j] # "\n"
        /\ Unlines(EventBodyRuns) = PhysicalLines(LastEvent.text)
        /\ \A i \in 1..Len(self.log) :
              /\ PlacesBody(self.log, i) =>
                    i < Len(self.log) /\ self.log[i + 1][1] = "new_line"
              /\ self.log[i][1] = "new_line" =>
                    i > 1 /\ PlacesBody(self.log, i - 1)

\* C6 witness: a Text event inside a code block has placed at least four
\* lines, one of them empty and one longer than the width wrap_text allows.
C6_Witness ==
    /\ LastIs("Text", "")
    /\ in_code_block
    /\ Len(EventBodyRuns) >= 4
    /\ \E i \in 1..Len(EventBodyRuns) : EventBodyRuns[i].text = <<>>
    /\ \E i \in 1..Len(EventBodyRuns) :
          ByteLen(EventBodyRuns[i].text) > MaxChars(self, TEXT_WIDTH)

\* C7 as stated: right after End(Heading), End(CodeBlock) or End(Paragraph)
\* the style is Body, 11pt and 1.4.
C7_StyleResetAsStated ==
    (\/ LastIs("End", "Heading")
     \/ LastIs("End", "CodeBlock")
     \/ LastIs("End", "Paragraph")) => IsBodyStyle(self)

\* C7 amended: End(Heading) and End(CodeBlock) leave the style Body, 11pt and
\* 1.4, whatever came before; End(Paragraph) leaves the font size and the
\* line height as they were before it.
C7_StyleReset ==
    [][events' # events =>
         LET e == events'[Len(events')]
         IN  /\ (e.kind = "End" /\ e.tag \in {"Heading", "CodeBlock"})
                    => IsBodyStyle(self')
             /\ (e.kind = "End" /\ e.tag = "Paragraph")
                    => /\ self'.current_font_size = self.current_font_size
                       /\ self'.current_line_height = self.current_line_height
      ]_vars

\* C7 witness: End(CodeBlock) has come right after a Start(Heading) that had
\* set a heading style, and the style is Body.
C7_Witness ==
    /\ LastIs("End", "CodeBlock")
    /\ Len(events) >= 2
    /\ events[Len(events) - 1].kind = "Start"
    /\ events[Len(events) - 1].tag = "Heading"
    /\ IsBodyStyle(self)

\* The depth the events give: Start(List) adds one, End(List) takes one away
\* when the depth is above zero and leaves it at zero otherwise.
ClaimedDepth(evs) ==
    LET Add(st, i) ==
            IF evs[i].kind = "Start" /\ evs[i].tag = "List"
            THEN [st EXCEPT !.starts = @ + 1]
            ELSE IF evs[i].kind = "End" /\ evs[i].tag = "List"
                    /\ st.starts - st.ends > 0
            THEN [st EXCEPT !.ends = @ + 1]
            ELSE st
        counts == ForEach(Add, [starts |-> 0, ends |-> 0], 1, Len(evs))
    IN  counts.starts - counts.ends

\* C8: the list depth is never negative and equals the number of Start(List)
\* minus the number of End(List) that came at a depth above zero.
C8_ListDepthFloor ==
    list_level >= 0 /\ list_level = ClaimedDepth(events)

\* C8 witness: the last event is an End(List) that came at depth 0, after a
\* list had been opened and closed, and the depth is 0.
C8_Witness ==
    /\ Len(events) >= 3
    /\ \A i \in 1..Len(events) : events[i].tag = "List"
    /\ events[1].kind = "Start"
    /\ events[Len(events) - 1].kind = "End"
    /\ LastEvent.kind = "End"
    /\ list_level = 0

\* C9: processing never aborts and no subtraction wraps, whatever the
\* events.
C9_NeverFatal ==
    /\ result = "Ok"
    /\ \A i \in 1..Len(EventRuns) : ~EventRuns[i].x_wrapped

\* The scenario of C10.
Script ==
    <<Ev("Start", "Heading", 1, <<>>), Ev("Text", "", 0, Title),
      Ev("End", "Heading", 0, <<>>), Ev("Start", "Paragraph", 0, <<>>),
      Ev("Text", "", 0, HelloWorld), Ev("End", "Paragraph", 0, <<>>)>>

\* C10: the scenario gives one page with "Title" at 18pt and then
\* "Hello world" at 11pt, and the cursor is below page_height - top_margin by
\* at least 12 mm + a line of H1 (18pt * 1.2) + 6 mm + 3 mm + a line of Body
\* (11pt * 1.4) + 3 mm.
C10_Scenario ==
    events = Script =>
        /\ Len(self.doc) = 1
        /\ LET body == SelectSeq(self.doc[1], IsBodyRun)
           IN  /\ Len(body) = 2
               /\ body[1].text = Title /\ body[1].size = 180
               /\ body[2].text = HelloWorld /\ body[2].size = 110
        /\ TopOfPage - self.current_y
              >= 12 * MM + PtToMm100(18 * 120) + 6 * MM + 3 * MM
                 + PtToMm100(11 * 140) + 3 * MM

\* C10 witness: the scenario has been processed to its end.
C10_Witness == events = Script /\ result = "Ok"

\* s is the beginning of t.
IsPrefix(s, t) == Len(s) <= Len(t) /\ SubSeq(t, 1, Len(s)) = s

\* The number of pages a call trace adds after its entry i.
PagesAddedAfter(log, i) ==
    Len(SelectSeq(SubSeq(log, i + 1, Len(log)), LAMBDA c : c[1] = "new_page"))

\* The number of use_text entries of a call trace.
Placements(log) == Len(SelectSeq(log, LAMBDA c : c[1] = "use_text"))

\* C11: every step keeps the pages already there and only appends: the page
\* count never decreases, page_number equals the number of pages, every
\* use_text of the step wrote to the page that was the last one when it was
\* called, pages before the last are not touched, and the runs of the
\* document in page order are the earlier runs followed by those the step's
\* event placed.
C11_OutputOrder ==
    [][/\ Len(self'.doc) >= Len(self.doc)
       /\ self'.page_number = Len(self'.doc)
       /\ self'.current_page = Len(self'.doc)
       /\ \A p \in 1..(Len(self.doc) - 1) : self'.doc[p] = self.doc[p]
       /\ IsPrefix(self.doc[Len(self.doc)], self'.doc[Len(self.doc)])
       /\ IsPrefix(AllRuns(self.doc), AllRuns(self'.doc))
       /\ \A i \in 1..Len(self'.log) :
             self'.log[i][1] = "use_text" =>
                 self'.log[i][2]
                     = Len(self'.doc) - PagesAddedAfter(self'.log, i)
       /\ events' # events =>
             Len(AllRuns(self'.doc))
                 = Len(AllRuns(self.doc)) + Placements(self'.log)
      ]_vars

\* C11 witness: after an event that placed text, the last event has placed
\* text on the page it found, added a page and placed text on the new page.
C11_Witness ==
    /\ Len(events) >= 2
    /\ Len(self.doc) = 2
    /\ Len(self.doc[1])
          > Len(SelectSeq(self.log, LAMBDA c : c = Call("use_text", 1)))
    /\ \E i, j, k \in 1..Len(self.log) :
          /\ i < j /\ j + 1 < k
          /\ self.log[i] = Call("use_text", 1)
          /\ self.log[j][1] = "new_page"
          /\ self.log[k] = Call("use_text", 2)

\* The table of C12: font size in points and line-height multiplier in
\* hundredths for each style.
ClaimedStyleTable ==
    [H1 |-> <<18, 120>>, H2 |-> <<16, 120>>, H3 |-> <<14, 115>>,
     H4 |-> <<12, 140>>, H5 |-> <<11, 140>>, H6 |-> <<10, 140>>,
     Body |-> <<11, 140>>, Code |-> <<9, 120>>]

CurrentStyle(r) == <<r.current_font_size, r.current_line_height>>

\* C12: set_text_style gives each of the eight styles its entry of the table,
\* and the current font size and line height are the Hn entry right after
\* Start(Heading(n)), the Body entry right after Start(Paragraph) and the
\* Code entry right after Start(CodeBlock).
C12_StyleTable ==
    /\ \A style \in BaseStyles :
          CurrentStyle(set_text_style(self, style)) = ClaimedStyleTable[style]
    /\ LastIs("Start", "Heading") =>
          CurrentStyle(self)
              = ClaimedStyleTable[<<"H1", "H2", "H3", "H4", "H5", "H6">>
                                      [LastEvent.level]]
    /\ LastIs("Start", "Paragraph") =>
          CurrentStyle(self) = ClaimedStyleTable["Body"]
    /\ LastIs("Start", "CodeBlock") =>
          CurrentStyle(self) = ClaimedStyleTable["Code"]

\* C12 witness: Start(Heading(H4)) has come right after Start(CodeBlock),
\* which had made the Code style current, and the style is 12pt and 1.4.
C12_Witness ==
    /\ LastIs("Start", "Heading")
    /\ LastEvent.level = 4
    /\ Len(events) >= 2
    /\ events[Len(events) - 1].tag = "CodeBlock"
    /\ events[Len(events) - 1].kind = "Start"
    /\ CurrentStyle(self) = <<12, 140>>

\* The font the style table gives for the style whose size and line height
\* are current: bold for H1, H2 and H3, monospace for Code, regular for the
\* others.
ClaimedFont(r) ==
    IF CurrentStyle(r) \in {ClaimedStyleTable["H1"], ClaimedStyleTable["H2"],
                            ClaimedStyleTable["H3"]}
    THEN "bold"
    ELSE IF CurrentStyle(r) = ClaimedStyleTable["Code"] THEN "mono"
    ELSE "regular"

\* C13: every run a Text event places has the font of the style current at
\* the placement: bold under H1, H2 and H3, monospace under Code, regular
\* under any other style.
C13_FontOfCurrentStyle ==
    LastIs("Text", "") =>
        \A i \in 1..Len(EventBodyRuns) :
            EventBodyRuns[i].font = ClaimedFont(self)

\* What C14 says the ensure_space calls of a call trace do to a cursor at y:
\* each either adds one page and puts the cursor at page_height - top_margin
\* without taking the amount, or takes the amount and adds no page.
ClaimedPaging(y, log) ==
    LET Do(st, i) ==
            IF log[i][1] # "ensure_space" THEN st
            ELSE IF st.y - log[i][2] < MARGIN_BOTTOM
            THEN [y |-> PAGE_HEIGHT - MARGIN_TOP, pages |-> st.pages + 1]
            ELSE [y |-> st.y - log[i][2], pages |-> st.pages]
    IN  ForEach(Do, [y |-> y, pages |-> 0], 1, Len(log))

\* C14: over the calls an event makes, each ensure_space(amount) either adds
\* one page (page counter + 1, cursor at page_height - top_margin, amount
\* not taken, footer stamped first on the page) when cursor - amount is
\* below the bottom margin, or else takes amount from the cursor and leaves
\* pages and page counter alone; pages are added by nothing else.
C14_EnsureSpaceDichotomy ==
    [][events' # events =>
         LET claimed == ClaimedPaging(self.current_y, self'.log)
             log == self'.log
         IN  /\ self'.current_y = claimed.y
             /\ Len(self'.doc) = Len(self.doc) + claimed.pages
             /\ self'.page_number = self.page_number + claimed.pages
             /\ Len(SelectSeq(log, LAMBDA c : c[1] = "new_page"))
                    = claimed.pages
             /\ \A i \in 1..Len(log) :
                   log[i][1] = "new_page" =>
                       /\ i > 1 /\ log[i - 1][1] = "ensure_space"
                       /\ i < Len(log) /\ log[i + 1][1] = "use_text"
             /\ \A p \in (Len(self.doc) + 1)..Len(self'.doc) :
                   /\ self'.doc[p] # <<>>
                   /\ IsFooterRun(self'.doc[p][1])
                   /\ self'.doc[p][1].text = FooterText(p)
      ]_vars

\* C14 witness: the last event has made an ensure_space call that added
\* page 2 and, after it, calls that took their amount from the cursor.
C14_Witness ==
    /\ events # <<>>
    /\ Len(self.doc) = 2
    /\ self.page_number = 2
    /\ \E i \in 2..Len(self.log) :
          /\ self.log[i][1] = "new_page"
          /\ self.log[i - 1][1] = "ensure_space"
          /\ self.log[i - 1][2] > 0
    /\ self.log[Len(self.log)][1] = "ensure_space"
    /\ self.current_y = TopOfPage - 2 * self.log[Len(self.log)][2]
    /\ self.current_y < TopOfPage

\* C15: every line a Text event places is placed at a cursor position with
\* at least one line height of the current style left above the bottom
\* margin, its space having been reserved before it was placed.
C15_ReservedBeforePlaced ==
    LastIs("Text", "") =>
        \A i \in 1..Len(EventBodyRuns) :
            EventBodyRuns[i].y - LineSpacing(self) >= MARGIN_BOTTOM

\* The runs the call trace of r stands for: the last runs of the document.
RunsOf(r) ==
    LET all == AllRuns(r.doc)
    IN  SubSeq(all, Len(all) - Placements(r.log) + 1, Len(all))

\* The indexes of the entries of a call trace that place a text that is not
\* a footer, in order.
BodyPlacements(log) ==
    LET Add(acc, i) == IF PlacesBody(log, i) THEN Append(acc, i) ELSE acc
    IN  ForEach(Add, <<>>, 1, Len(log))

\* The texts of a sequence of runs.
TextsOf(runs) == [i \in 1..Len(runs) |-> runs[i].text]

\* C16: a Text event outside a code block, with indent = depth * 10 mm at a
\* depth above 0 and 0 otherwise, places the non-blank lines of the run
\* wrapped against content_width - indent, in order, each at
\* (left_margin + indent, cursor at that moment), and advances one line
\* height once per wrapped line, after the line's placement if it has one;
\* a run that is empty or only whitespace places nothing and advances once.
C16_TextOutsideCodeBlock ==
    [][(/\ events' # events
        /\ events'[Len(events')].kind = "Text"
        /\ ~in_code_block) =>
         LET text == events'[Len(events')].text
             indent == IF list_level > 0 THEN list_level * 10 * MM ELSE 0
             wrapped == wrap_text(self, text, TEXT_WIDTH - indent)
             log == self'.log
             placed == SelectSeq(RunsOf(self'), IsBodyRun)
             at == BodyPlacements(log)
             advances == SelectSeq(log, LAMBDA c : c[1] = "new_line")
         IN  /\ TextsOf(placed)
                    = SelectSeq(wrapped, LAMBDA l : ~TrimIsEmpty(l))
             /\ Len(at) = Len(placed)
             /\ \A k \in 1..Len(placed) :
                   /\ placed[k].x = 25 * MM + indent
                   /\ ~placed[k].x_wrapped
                   /\ placed[k].y
                        = ClaimedPaging(self.current_y,
                                        SubSeq(log, 1, at[k] - 1)).y
                   /\ log[at[k] + 1][1] = "new_line"
             /\ Len(advances) = Len(wrapped)
             /\ \A i \in 1..Len(log) :
                   log[i][1] = "new_line" =>
                       log[i + 1] = Call("ensure_space", LineSpacing(self))
             /\ TrimIsEmpty(text) => placed = <<>> /\ Len(advances) = 1
      ]_vars

\* C16 witness: a Text event at list depth 1, outside a code block, has
\* placed several wrapped lines at 35 mm from the left edge.
C16_Witness ==
    /\ LastIs("Text", "")
    /\ ~in_code_block
    /\ list_level = 1
    /\ Len(EventBodyRuns) >= 2
    /\ \A i \in 1..Len(EventBodyRuns) : EventBodyRuns[i].x = 35 * MM
    /\ Len(wrap_text(self, LastEvent.text, 150 * MM)) = Len(EventBodyRuns)

\* A renderer without its call trace: the pages and their runs, the cursor,
\* the style and the page counter.
Outcome(r) == [r EXCEPT !.log = <<>>]

\* C17: in every reachable state, at any list depth and inside or outside a
\* code block, processing SoftBreak gives the same renderer state and the
\* same placed runs as processing Text(" ") (neither changes the locals of
\* render_events).
C17_SoftBreakIsSpace ==
    result = "Ok" =>
        Outcome(add_text(Begin, <<" ">>))
            = Outcome(RenderText(Begin, <<" ">>, in_code_block, list_level))

\* C18: HardBreak places no body text and leaves style, list depth and
\* code-block flag alone; when one line height of the current style (font
\* size * line-height multiplier * 0.352777778 mm) fits above the bottom
\* margin, it lowers the cursor by exactly that height on the same page.
C18_HardBreak ==
    [][(events' # events /\ events'[Len(events')].kind = "HardBreak") =>
         LET height == PtToMm100(self.current_font_size
                                    * self.current_line_height)
         IN  /\ SelectSeq(RunsOf(self'), IsBodyRun) = <<>>
             /\ CurrentStyle(self') = CurrentStyle(self)
             /\ list_level' = list_level
             /\ in_code_block' = in_code_block
             /\ self.current_y - height >= 25 * MM =>
                   /\ self'.current_y = self.current_y - height
                   /\ self'.doc = self.doc
                   /\ self'.page_number = self.page_number
      ]_vars

\* C18 witness: HardBreak has come right after Start(Heading(H3)) on a fresh
\* renderer: the cursor is 12 mm and one line of 14pt * 1.15 below the top.
C18_Witness ==
    /\ LastIs("HardBreak", "")
    /\ Len(events) = 2
    /\ events[1] = Ev("Start", "Heading", 3, <<>>)
    /\ CurrentStyle(self) = <<14, 115>>
    /\ self.current_y = TopOfPage - 12 * MM - PtToMm100(14 * 115)
    /\ self.doc = << <<>> >>

\* C19: Start(Item) at a list depth d >= 1 places exactly one run, the
\* bullet U+2022 when d = 1 and U+25E6 when d >= 2, at
\* x = left_margin + (d - 1) * 10 mm and y = the cursor, and leaves cursor,
\* pages before the run, page counter, style and depth as they were.
C19_ItemBullet ==
    [][(/\ events' # events
        /\ events'[Len(events')].kind = "Start"
        /\ events'[Len(events')].tag = "Item"
        /\ list_level >= 1) =>
         LET placed == RunsOf(self')
         IN  /\ result' = "Ok"
             /\ Len(placed) = 1
             /\ placed[1].text = IF list_level = 1 THEN <<"U+2022">>
                                                    ELSE <<"U+25E6">>
             /\ placed[1].x = 25 * MM + (list_level - 1) * 10 * MM
             /\ ~placed[1].x_wrapped
             /\ placed[1].y = self.current_y
             /\ self'.doc = [self.doc EXCEPT ![Len(self.doc)]
                                               = Append(@, placed[1])]
             /\ self'.current_y = self.current_y
             /\ self'.current_page = self.current_page
             /\ self'.page_number = self.page_number
             /\ CurrentStyle(self') = CurrentStyle(self)
             /\ list_level' = list_level
             /\ in_code_block' = in_code_block
             /\ text_stack' = text_stack
      ]_vars

\* C19 witness: Start(Item) has been processed at list depth 2 and the
\* bullet U+25E6 is at 35 mm from the left edge, at the cursor.
C19_Witness ==
    /\ LastIs("Start", "Item")
    /\ result = "Ok"
    /\ list_level = 2
    /\ EventRuns = <<TextRun(<<"U+25E6">>, self.current_font_size * 10,
                             35 * MM, FALSE, self.current_y, "regular")>>

\* C20: Code(run) places the run once, at the cursor, with the monospace
\* font at 90% of the current font size, and leaves cursor, page, page
\* counter, style, list depth and code-block flag as they were.
C20_InlineCode ==
    [][(events' # events /\ events'[Len(events')].kind = "Code") =>
         LET placed == RunsOf(self')
         IN  /\ Len(placed) = 1
             /\ placed[1].text = events'[Len(events')].text
             /\ placed[1].y = self.current_y
             /\ placed[1].font = "mono"
             /\ placed[1].size * 10 = (self.current_font_size * 10) * 9
             /\ self'.doc = [self.doc EXCEPT ![Len(self.doc)]
                                               = Append(@, placed[1])]
             /\ self'.current_y = self.current_y
             /\ self'.current_page = self.current_page
             /\ self'.page_number = self.page_number
             /\ CurrentStyle(self') = CurrentStyle(self)
             /\ list_level' = list_level
             /\ in_code_block' = in_code_block
      ]_vars

\* C20 witness: Code has come right after Start(Heading(H1)): the run is
\* placed at 16.2pt, monospace, and the cursor is still 12 mm below the top.
C20_Witness ==
    /\ LastIs("Code", "")
    /\ Len(events) = 2
    /\ events[1] = Ev("Start", "Heading", 1, <<>>)
    /\ Len(EventRuns) = 1
    /\ EventRuns[1].size = 162
    /\ EventRuns[1].font = "mono"
    /\ EventRuns[1].y = TopOfPage - 12 * MM
    /\ self.current_y = TopOfPage - 12 * MM

\* A slice of events with the Start and End of Strong and Emphasis taken out.
WithoutStrongEmphasis(evs) ==
    SelectSeq(evs, LAMBDA e : e.tag \notin {"Strong", "Emphasis"})

\* C21: Start and End of Strong or Emphasis only push to or pop from the
\* style stack, making no call on the renderer and leaving cursor, pages,
\* font size, line height, list depth and code-block flag as they were; and
\* after every event the output is that of the events received so far with
\* the Strong and Emphasis events removed (where there are any to remove).
C21_StrongEmphasisInert ==
    [][events' # events =>
         LET e == events'[Len(events')]
             plain == render_events(WithoutStrongEmphasis(events'),
                                    result' = "panic")
         IN  /\ e.tag \in {"Strong", "Emphasis"} =>
                   /\ self'.log = <<>>
                   /\ Outcome(self') = Outcome(self)
                   /\ list_level' = list_level
                   /\ in_code_block' = in_code_block
                   /\ result' = result
                   /\ text_stack' = IF e.kind = "Start"
                                    THEN Append(text_stack, e.tag)
                                    ELSE IF text_stack = <<>> THEN <<>>
                                    ELSE SubSeq(text_stack, 1,
                                                Len(text_stack) - 1)
             /\ WithoutStrongEmphasis(events') # events' =>
                   /\ Outcome(self') = Outcome(plain.self)
                   /\ list_level' = plain.list_level
                   /\ in_code_block' = plain.in_code_block
                   /\ result' = plain.result
      ]_vars

\* C21 witness: a text has been placed between Start(Strong) and
\* End(Strong), the stack is empty again and the page holds that one run.
C21_Witness ==
    /\ Len(events) = 3
    /\ events[1] = Ev("Start", "Strong", 0, <<>>)
    /\ events[2] = Ev("Text", "", 0, HelloWorld)
    /\ events[3] = Ev("End", "Strong", 0, <<>>)
    /\ text_stack = <<>>
    /\ Len(self.doc[1]) = 1
    /\ self.doc[1][1].text = HelloWorld

\* The strings of a sequence joined by single spaces.
JoinWithSpaces(strs) ==
    LET Add(acc, i) == IF i = 1 THEN strs[1] ELSE acc \o <<" ">> \o strs[i]
    IN  ForEach(Add, <<>>, 1, Len(strs))

\* C22: the lines wrap_text returns, joined by single spaces, are the
\* whitespace-delimited words of the input in order joined by single spaces;
\* a line is ended before a word only when the line so far plus one space
\* plus the word has more than max_chars characters; an input without words
\* gives exactly one empty line.
C22_GreedyLossless ==
    wrap_ret # <<>> =>
        LET words == split_whitespace(wrap_args.text)
            max_chars == MaxChars(self, wrap_args.max_width)
        IN  /\ JoinWithSpaces(WrapLines) = JoinWithSpaces(words)
            /\ \A i \in 2..Len(WrapLines) :
                  Len(WrapLines[i - 1]) + 1
                      + Len(split_whitespace(WrapLines[i])[1]) > max_chars
            /\ words = <<>> => WrapLines = << <<>> >>

\* What C23 says of a sequence of calls: the tags open after it, oldest
\* first, and the parts it has added.  A tag that is not self-closing is put
\* on the stack; close_tag takes the tag opened last off it and adds its
\* closing tag, and does nothing when no tag is open; clear empties both.
ClaimedDocument(cs) ==
    LET Do(st, i) ==
            CASE cs[i].op = "tag" ->
                   [open |-> IF is_self_closing(cs[i].tag_name) THEN st.open
                             ELSE Append(st.open, cs[i].tag_name),
                    parts |-> Append(st.parts,
                                     OpeningTag(cs[i].tag_name, cs[i].kwargs))]
              [] cs[i].op = "text" /\ cs[i].content # <<>> ->
                   [st EXCEPT !.parts = Append(@, escape_text(cs[i].content[1]))]
              [] cs[i].op = "raw" /\ cs[i].content # <<>> ->
                   [st EXCEPT !.parts = Append(@, cs[i].content[1])]
              [] cs[i].op = "close_tag" /\ st.open # <<>> ->
                   [open |-> SubSeq(st.open, 1, Len(st.open) - 1),
                    parts |-> Append(st.parts,
                                     <<"<", "/">> \o st.open[Len(st.open)]
                                         \o <<">">>)]
              [] cs[i].op = "clear" -> [open |-> <<>>, parts |-> <<>>]
              [] OTHER -> st
    IN  ForEach(Do, [open |-> <<>>, parts |-> <<>>], 1, Len(cs))

\* C23: after any tag, text, raw, close_tag and clear calls, render returns
\* an "Unclosed tags" error exactly when a tag that is not self-closing,
\* opened since the last clear, has not been closed; the stack holds the
\* open tags, close_tag having closed the one opened last each time (and
\* nothing on an empty stack); no self-closing tag is on the stack; and a
\* successful render is the parts of the calls, in call order, concatenated.
C23_UnclosedTags ==
    LET claimed == ClaimedDocument(calls)
        r == Document_render(document)
    IN  /\ r.kind = "Err" <=> claimed.open # <<>>
        /\ r.kind = "Err" => IsPrefix(UnclosedTags, r.value)
        /\ document.tag_stack = claimed.open
        /\ \A i \in 1..Len(document.tag_stack) :
              ~is_self_closing(document.tag_stack[i])
        /\ document.parts = claimed.parts
        /\ r.kind = "Ok" => r.value = Joined(claimed.parts, <<>>)
        /\ returned.op = "render" =>
              returned.kind = r.kind /\ returned.value = r.value

\* C23 witness: div and p have been opened and both closed, p first, and
\* render has returned "<div><p></p></div>".
C23_Witness ==
    /\ Len(calls) = 4
    /\ calls[1].op = "tag" /\ calls[1].tag_name = Div
    /\ calls[2].op = "tag" /\ calls[2].tag_name = Para
    /\ calls[3].op = "close_tag"
    /\ calls[4].op = "close_tag"
    /\ returned = Returns("render", "Ok",
                          <<"<", "d", "i", "v", ">", "<", "p", ">", "<", "/",
                            "p", ">", "<", "/", "d", "i", "v", ">">>)

=============================================================================
